---- MODULE Spec2Model ----
(***************************************************************************)
(* Window-state persistence and the control loop of src-tauri/src/main.rs. *)
(*                                                                         *)
(* One process lifetime is: load the state file, build the window, restore *)
(* its geometry, run the event loop, and on CloseRequested save the live   *)
(* geometry.  The model covers several lifetimes in a row, so that what    *)
(* one run writes is what the next run reads.                              *)
(*                                                                         *)
(* Numbers.  Physical sizes are naturals (u32), positions integers (i32).  *)
(* A logical size (f64) is kept in half units: the f64 value v is the      *)
(* integer 2*v, which is exact for the scale factors 1 and 2 used here.    *)
(* The state file is a sequence of JSON tokens; numbers are written and    *)
(* read digit by digit.                                                    *)
(*                                                                         *)
(* The user and the platform change the live window (move, resize,         *)
(* maximize, fullscreen, monitor) at most MaxChanges times in one run.     *)
(***************************************************************************)
EXTENDS Integers, Sequences, FiniteSets, TLC

\* Largest physical width/height the user can resize the window to.
MaxDim == 1
\* Window corner positions the user can move the window to.
MinPos == 0 - 1
MaxPos == 1
\* Changes the user and the platform make to the window in one run.
MaxChanges == 1

\* Requests, menu events and download callbacks of one process.
MaxEvents == 2

\* Pieces in an IPC request string.
MaxReqLen == 4

I32Max == 2147483647
I32Min == (0 - I32Max) - 1

VARIABLES
    target_os,      \* cfg(target_os) of the build
    config,         \* WindowConfig read from tauri.conf.json
    appDirExists,   \* app_dir.exists()
    file,           \* the file at state_path: whether it exists, its tokens
    pc,             \* position of the process in main()
    saveStep,       \* next link of the save chain while pc = "ClosingSave"
    window_state,   \* the Option<WindowState> loaded at startup
    builder,        \* what was given to WindowBuilder
    win,            \* the live window
    monitor,        \* window.current_monitor()
    state,          \* the WindowState built by the CloseRequested handler
    saved,          \* history: the last close wrote its whole record
    changes,        \* history: changes made to the window since launch
    calls,          \* history: the calls of the geometry restore, in order
    relay,          \* the event loop's channel of UserEvents, oldest first
    handled,        \* history: the UserEvents the loop's match has taken
    sentLog,        \* history: the UserEvents whose send_event returned Ok
    toasts,         \* evaluate_script calls that inject the toast
    last,           \* history: the last request, menu event or callback
    events          \* history: requests and callbacks of this process so far

\* The state of the event sources of the loop.
loopVars == <<relay, handled, sentLog, toasts, last, events>>

vars == <<target_os, config, appDirExists, file, pc, saveStep, window_state,
          builder, win, monitor, state, saved, changes, calls, relay, handled,
          sentLog, toasts, last, events>>

----------------------------------------------------------------------------
(* Data *)

\* Absent values are records of their own shape.
NoFile == [exists |-> FALSE, content |-> <<>>]
FileOf(content) == [exists |-> TRUE, content |-> content]
NoneState == [none |-> "window_state"]
NoMonitor == [none |-> "monitor"]
NoWindow == [none |-> "window"]
Unset == [none |-> "state"]
NoFullscreen == [none |-> "fullscreen"]
NoBuilder == [none |-> "builder"]
NoEvent == [source |-> "none"]

\* #[derive(Default)] WindowState
DefaultWindowState ==
    [width |-> 0, height |-> 0, x |-> 0, y |-> 0, maximized |-> FALSE,
     visible |-> FALSE, decorated |-> FALSE, fullscreen |-> FALSE]

\* Monitor layouts the platform can report: position, size, scale factor.
Monitors ==
    { [x |-> 0 - 1, y |-> 0, width |-> 2, height |-> 2, scale |-> 1],
      [x |-> 0, y |-> 0, width |-> 2, height |-> 2, scale |-> 2] }

MonitorOpt == Monitors \cup {NoMonitor}

\* WindowConfig values (width and height are f64, in half units).
Configs == { [width |-> 2, height |-> 1, fullscreen |-> f] : f \in BOOLEAN }

TargetOs == {"macos", "linux", "windows"}

----------------------------------------------------------------------------
(* serde_json::to_string(&state): the record as JSON tokens *)

DigitChars == <<"0", "1", "2", "3", "4", "5", "6", "7", "8", "9">>

RECURSIVE Digits(_)
Digits(n) ==
    IF n < 10 THEN <<DigitChars[n + 1]>>
    ELSE Digits(n \div 10) \o <<DigitChars[(n % 10) + 1]>>

Abs(n) == IF n < 0 THEN 0 - n ELSE n

\* FmtI32 that drops the sign.
FmtI32Unsigned(n) == Digits(Abs(n))

\* An i32 field: optional sign, decimal digits.
FmtI32(n) == (IF n < 0 THEN <<"-">> ELSE <<>>) \o Digits(Abs(n))

\* A finite f64 field: always with a fraction part ("800.0", "0.5").
FmtF64(h) ==
    (IF h < 0 THEN <<"-">> ELSE <<>>) \o Digits(Abs(h) \div 2)
        \o <<".", IF Abs(h) % 2 = 1 THEN "5" ELSE "0">>

FmtBool(b) == IF b THEN <<"true">> ELSE <<"false">>

to_string(s) ==
    <<"{", "width", ":">> \o FmtF64(s.width)
        \o <<",", "height", ":">> \o FmtF64(s.height)
        \o <<",", "x", ":">> \o FmtI32(s.x)
        \o <<",", "y", ":">> \o FmtI32(s.y)
        \o <<",", "maximized", ":">> \o FmtBool(s.maximized)
        \o <<",", "visible", ":">> \o FmtBool(s.visible)
        \o <<",", "decorated", ":">> \o FmtBool(s.decorated)
        \o <<",", "fullscreen", ":">> \o FmtBool(s.fullscreen)
        \o <<"}">>

----------------------------------------------------------------------------
(* serde_json::from_reader::<WindowState>: tokens back to a record *)

ParseError == [error |-> "parse"]

FloatFields == {"width", "height"}
IntFields == {"x", "y"}
BoolFields == {"maximized", "visible", "decorated", "fullscreen"}
FieldNames == FloatFields \cup IntFields \cup BoolFields

DigitValues == [c \in {DigitChars[i] : i \in 1..10} |->
                   (CHOOSE i \in 1..10 : DigitChars[i] = c) - 1]
IsDigit(c) == c \in DOMAIN DigitValues
DigitVal(c) == DigitValues[c]

Tok(t, i) == IF i <= Len(t) THEN t[i] ELSE "EOF"

\* Reads the digits from t[i] on; acc is the value read so far.
RECURSIVE ReadDigits(_, _, _)
ReadDigits(t, i, acc) ==
    IF IsDigit(Tok(t, i)) THEN ReadDigits(t, i + 1, acc * 10 + DigitVal(t[i]))
    ELSE [value |-> acc, next |-> i]

\* A JSON number at t[i]: [ok, float, value, next].  value is the integer
\* read, or for a float twice the number; only the fractions .0 and .5 are
\* values of the model's f64.
ParseNumber(t, i) ==
    LET neg == Tok(t, i) = "-"
        j == IF neg THEN i + 1 ELSE i
        int == ReadDigits(t, j, 0)
        leadingZero == Tok(t, j) = "0" /\ int.next > j + 1
        sign(v) == IF neg THEN 0 - v ELSE v
        bad == [ok |-> FALSE, float |-> FALSE, value |-> 0, next |-> i]
    IN  IF ~IsDigit(Tok(t, j)) \/ leadingZero THEN bad
        ELSE IF Tok(t, int.next) # "." THEN
            [ok |-> TRUE, float |-> FALSE, value |-> sign(int.value),
             next |-> int.next]
        ELSE LET frac == ReadDigits(t, int.next + 1, 0)
             IN  IF frac.next # int.next + 2
                    \/ Tok(t, int.next + 1) \notin {"0", "5"}
                 THEN bad
                 ELSE [ok |-> TRUE, float |-> TRUE,
                       value |-> sign(2 * int.value
                                      + (IF frac.value = 5 THEN 1 ELSE 0)),
                       next |-> frac.next]

\* The value of field k at t[i]: [ok, value, next].
ParseValue(t, i, k) ==
    LET bad == [ok |-> FALSE, value |-> 0, next |-> i]
    IN  IF k \in BoolFields THEN
            IF Tok(t, i) \in {"true", "false"}
            THEN [ok |-> TRUE, value |-> (t[i] = "true"), next |-> i + 1]
            ELSE bad
        ELSE LET n == ParseNumber(t, i)
             IN  IF ~n.ok THEN bad
                 ELSE IF k \in IntFields THEN
                     IF n.float \/ n.value < I32Min \/ n.value > I32Max
                     THEN bad
                     ELSE [ok |-> TRUE, value |-> n.value, next |-> n.next]
                 ELSE [ok |-> TRUE,
                       value |-> IF n.float THEN n.value ELSE 2 * n.value,
                       next |-> n.next]

\* The members of the object from t[i] on; got maps the fields read so far.
RECURSIVE ParseMembers(_, _, _)
ParseMembers(t, i, got) ==
    LET k == Tok(t, i)
    IN  IF k \notin FieldNames \/ k \in DOMAIN got \/ Tok(t, i + 1) # ":"
        THEN ParseError
        ELSE LET v == ParseValue(t, i + 2, k)
                 now == [f \in DOMAIN got \cup {k} |->
                            IF f = k THEN v.value ELSE got[f]]
             IN  IF ~v.ok THEN ParseError
                 ELSE IF Tok(t, v.next) = "," THEN ParseMembers(t, v.next + 1, now)
                 ELSE IF Tok(t, v.next) = "}" /\ v.next = Len(t)
                         /\ DOMAIN now = FieldNames
                 THEN now
                 ELSE ParseError

EmptyMap == [f \in {} |-> 0]

from_reader(t) ==
    IF Tok(t, 1) # "{" THEN ParseError ELSE ParseMembers(t, 2, EmptyMap)

----------------------------------------------------------------------------
(* Geometry helpers *)

\* contains with the edges counted as inside.
containsInclusive(m, position) ==
    /\ m.x <= position.x
    /\ position.x <= m.x + m.width
    /\ m.y <= position.y
    /\ position.y <= m.y + m.height

\* MonitorExt::contains: strictly inside on both axes.
contains(m, position) ==
    /\ m.x < position.x
    /\ position.x < m.x + m.width
    /\ m.y < position.y
    /\ position.y < m.y + m.height

\* current_monitor().map(|m| m.scale_factor()).unwrap_or(1.)
scale_factor(m) == IF m = NoMonitor THEN 1 ELSE m.scale

\* PhysicalSize<u32>::to_logical(scale_factor): pixels / scale, in half units.
to_logical(size, scale) ==
    [width |-> (2 * size.width) \div scale,
     height |-> (2 * size.height) \div scale]

\* One f64 length in half units to u32 pixels: (v * scale).round() as u32.
PixelRound(h, scale) == IF h <= 0 THEN 0 ELSE (h * scale + 1) \div 2

\* LogicalSize<f64>::to_physical(scale_factor)
to_physical(width, height, scale) ==
    [width |-> PixelRound(width, scale), height |-> PixelRound(height, scale)]

----------------------------------------------------------------------------
(* CloseRequested: the record built from the live window *)

\* SavedSize that keeps the live size of a maximized window.
SavedSizeIgnoringMaximized(w, m) ==
    LET size == to_logical(w.inner_size, scale_factor(m))
    IN  IF size.width > 0 /\ size.height > 0
        THEN size
        ELSE [width |-> DefaultWindowState.width,
              height |-> DefaultWindowState.height]

\* SavedSize that asks for one positive side only.
SavedSizeEitherPositive(w, m) ==
    LET size == to_logical(w.inner_size, scale_factor(m))
    IN  IF (size.width > 0 \/ size.height > 0) /\ ~w.maximized
        THEN size
        ELSE [width |-> DefaultWindowState.width,
              height |-> DefaultWindowState.height]

\* The size fields: the live logical size, or the defaults.
SavedSize(w, m) ==
    LET size == to_logical(w.inner_size, scale_factor(m))
    IN  IF size.width > 0 /\ size.height > 0 /\ ~w.maximized
        THEN size
        ELSE [width |-> DefaultWindowState.width,
              height |-> DefaultWindowState.height]

\* SavedPosition that keeps the live position of a maximized window.
SavedPositionIgnoringMaximized(w, m) ==
    IF m # NoMonitor /\ contains(m, w.position)
    THEN w.position
    ELSE [x |-> DefaultWindowState.x, y |-> DefaultWindowState.y]

\* The position fields: the live position, or the defaults.
SavedPosition(w, m) ==
    IF m # NoMonitor /\ contains(m, w.position) /\ ~w.maximized
    THEN w.position
    ELSE [x |-> DefaultWindowState.x, y |-> DefaultWindowState.y]

\* CloseState that keeps the loaded position where it writes no live one.
CloseStateMerging(w, m) ==
    [width |-> SavedSize(w, m).width,
     height |-> SavedSize(w, m).height,
     x |-> IF SavedPosition(w, m) = w.position \/ window_state = NoneState
           THEN SavedPosition(w, m).x ELSE window_state.x,
     y |-> IF SavedPosition(w, m) = w.position \/ window_state = NoneState
           THEN SavedPosition(w, m).y ELSE window_state.y,
     maximized |-> w.maximized,
     visible |-> w.visible,
     decorated |-> w.decorated,
     fullscreen |-> (w.fullscreen # NoFullscreen)]

\* The record built at CloseRequested from the window and its monitor.
CloseState(w, m) ==
    [width |-> SavedSize(w, m).width,
     height |-> SavedSize(w, m).height,
     x |-> SavedPosition(w, m).x,
     y |-> SavedPosition(w, m).y,
     maximized |-> w.maximized,
     visible |-> w.visible,
     decorated |-> w.decorated,
     fullscreen |-> (w.fullscreen # NoFullscreen)]

----------------------------------------------------------------------------
(* Startup: load, WindowBuilder, geometry restore *)

\* LoadState that takes a file it cannot parse for no file.
LoadStateLenient(f) ==
    IF ~f.exists \/ from_reader(f.content) = ParseError THEN NoneState
    ELSE from_reader(f.content)

\* let window_state = if state_path.exists() { ... } else { None }
LoadState(f) == IF ~f.exists THEN NoneState ELSE from_reader(f.content)

BuildMaximized(ws) == IF ws = NoneState THEN FALSE ELSE ws.maximized

\* BuildPosition with the coordinates exchanged.
BuildPositionSwapped(ws) ==
    IF ws = NoneState THEN [kind |-> "Logical", x |-> 0, y |-> 0]
    ELSE [kind |-> "Physical", x |-> ws.y, y |-> ws.x]

BuildPosition(ws) ==
    IF ws = NoneState THEN [kind |-> "Logical", x |-> 0, y |-> 0]
    ELSE [kind |-> "Physical", x |-> ws.x, y |-> ws.y]

\* WantFullscreen that follows the config whatever was loaded.
WantFullscreenConfigOnly(ws, cfg) == cfg.fullscreen

\* Whether set_fullscreen is called with Some(Borderless(..)).
WantFullscreen(ws, cfg) ==
    IF ws = NoneState THEN cfg.fullscreen ELSE ws.fullscreen

\* The logical size given to set_inner_size.
RestoreSize(ws, cfg) ==
    IF ws = NoneState THEN [width |-> cfg.width, height |-> cfg.height]
    ELSE [width |-> ws.width, height |-> ws.height]

\* The calls of the match on window_state, in the order made.
RestoreCalls(ws, cfg, m) ==
    << [op |-> "set_fullscreen",
        arg |-> IF WantFullscreen(ws, cfg) THEN [monitor |-> m]
                ELSE NoFullscreen],
       [op |-> "set_inner_size", arg |-> RestoreSize(ws, cfg)] >>

\* The window after build() and the match on window_state.
RestoredWindow(ws, cfg, m) ==
    LET size == RestoreSize(ws, cfg)
    IN  [maximized |-> BuildMaximized(ws),
         fullscreen |-> IF WantFullscreen(ws, cfg) THEN [monitor |-> m]
                        ELSE NoFullscreen,
         decorated |-> TRUE,
         visible |-> TRUE,
         minimized |-> FALSE,
         inner_size |-> to_physical(size.width, size.height, scale_factor(m)),
         position |-> [x |-> BuildPosition(ws).x, y |-> BuildPosition(ws).y]]

\* Linux and Windows create the web context's data directory, which is the
\* application directory; macOS does not.
CreatesDataDir(os) == os \in {"linux", "windows"}

NotRunning == {"NotStarted", "Terminated", "StartupFailed", "Aborted", "Crashed"}

Launch ==
    /\ pc \in NotRunning
    /\ \E m \in MonitorOpt, ws \in {LoadState(file)} :
        IF ws = ParseError
        THEN /\ pc' = "StartupFailed"
             /\ window_state' = NoneState
             /\ builder' = NoBuilder
             /\ win' = NoWindow
             /\ monitor' = NoMonitor
             /\ calls' = <<>>
             /\ UNCHANGED appDirExists
        ELSE \E w \in {RestoredWindow(ws, config, m)} :
             /\ w.inner_size.width <= MaxDim
             /\ w.inner_size.height <= MaxDim
             /\ pc' = "Running"
             /\ window_state' = ws
             /\ builder' = [maximized |-> BuildMaximized(ws),
                            position |-> BuildPosition(ws)]
             /\ win' = w
             /\ monitor' = m
             /\ calls' = RestoreCalls(ws, config, m)
             /\ appDirExists' = (appDirExists \/ CreatesDataDir(target_os))
    /\ state' = Unset
    /\ saved' = FALSE
    /\ changes' = 0
    /\ saveStep' = "none"
    /\ relay' = <<>>
    /\ handled' = <<>>
    /\ sentLog' = <<>>
    /\ toasts' = 0
    /\ last' = NoEvent
    /\ events' = 0
    /\ UNCHANGED <<target_os, config, file>>

----------------------------------------------------------------------------
(* The user and the platform, while the loop runs *)

Positions == [x : MinPos..MaxPos, y : 0..MaxPos]
Sizes == [width : 0..MaxDim, height : 0..MaxDim]

UserMoves ==
    /\ pc = "Running"
    /\ \E p \in Positions : p # win.position /\ win' = [win EXCEPT !.position = p]
    /\ changes < MaxChanges
    /\ changes' = changes + 1
    /\ UNCHANGED <<target_os, config, appDirExists, file, pc, saveStep,
                   window_state, builder, monitor, state, saved>>
    /\ UNCHANGED <<calls, loopVars>>

UserResizes ==
    /\ pc = "Running"
    /\ \E s \in Sizes : s # win.inner_size /\ win' = [win EXCEPT !.inner_size = s]
    /\ changes < MaxChanges
    /\ changes' = changes + 1
    /\ UNCHANGED <<target_os, config, appDirExists, file, pc, saveStep,
                   window_state, builder, monitor, state, saved>>
    /\ UNCHANGED <<calls, loopVars>>

UserTogglesMaximized ==
    /\ pc = "Running"
    /\ win' = [win EXCEPT !.maximized = ~win.maximized]
    /\ changes < MaxChanges
    /\ changes' = changes + 1
    /\ UNCHANGED <<target_os, config, appDirExists, file, pc, saveStep,
                   window_state, builder, monitor, state, saved>>
    /\ UNCHANGED <<calls, loopVars>>

UserTogglesFullscreen ==
    /\ pc = "Running"
    /\ win' = [win EXCEPT !.fullscreen = IF win.fullscreen = NoFullscreen
                                         THEN [monitor |-> monitor]
                                         ELSE NoFullscreen]
    /\ changes < MaxChanges
    /\ changes' = changes + 1
    /\ UNCHANGED <<target_os, config, appDirExists, file, pc, saveStep,
                   window_state, builder, monitor, state, saved>>
    /\ UNCHANGED <<calls, loopVars>>

MonitorChanges ==
    /\ pc = "Running"
    /\ \E m \in MonitorOpt : m # monitor /\ monitor' = m
    /\ changes < MaxChanges
    /\ changes' = changes + 1
    /\ UNCHANGED <<target_os, config, appDirExists, file, pc, saveStep,
                   window_state, builder, win, state, saved>>
    /\ UNCHANGED <<calls, loopVars>>

----------------------------------------------------------------------------
(* Event::WindowEvent CloseRequested, and the save chain link by link *)

CloseRequested ==
    /\ pc = "Running"
    /\ IF appDirExists
       THEN /\ state' = CloseState(win, monitor)
            /\ pc' = "ClosingSave"
            /\ saveStep' = "create_dir_all"
       ELSE /\ state' = Unset
            /\ pc' = "Terminated"
            /\ saveStep' = "none"
    /\ saved' = FALSE
    /\ UNCHANGED <<target_os, config, appDirExists, file, window_state,
                   builder, win, monitor, changes>>
    /\ UNCHANGED <<calls, loopVars>>

\* The process ends without leaving the loop: its window is gone.
ProcessDies(how) ==
    /\ pc' = how
    /\ saveStep' = "none"
    /\ builder' = NoBuilder
    /\ win' = NoWindow
    /\ monitor' = NoMonitor

\* A failed save that goes back to the loop.
SaveFailureResumes ==
    /\ pc' = "Running"
    /\ saveStep' = "none"
    /\ UNCHANGED <<builder, win, monitor>>

\* expect("Can't save window state") on an Err of the chain.
SaveAborts == ProcessDies("Aborted")

SaveCreateDirAll ==
    /\ pc = "ClosingSave" /\ saveStep = "create_dir_all"
    /\ \E ok \in BOOLEAN :
        IF ok THEN /\ appDirExists' = TRUE
                   /\ saveStep' = "File_create"
                   /\ UNCHANGED <<pc, builder, win, monitor>>
        ELSE /\ SaveAborts
             /\ UNCHANGED appDirExists
    /\ UNCHANGED <<target_os, config, file, window_state, state, saved,
                   changes>>
    /\ UNCHANGED <<calls, loopVars>>

\* File::create truncates the file at state_path, or creates it empty.
SaveFileCreate ==
    /\ pc = "ClosingSave" /\ saveStep = "File_create"
    /\ \E ok \in BOOLEAN :
        IF ok THEN /\ file' = FileOf(<<>>)
                   /\ saveStep' = "write_all"
                   /\ UNCHANGED <<pc, builder, win, monitor>>
        ELSE /\ SaveAborts
             /\ UNCHANGED file
    /\ UNCHANGED <<target_os, config, appDirExists, window_state, state, saved,
                   changes>>
    /\ UNCHANGED <<calls, loopVars>>

\* What a write_all that does not finish can leave in the file.
PartialWrites(buf) ==
    { SubSeq(buf, 1, n) : n \in {Len(buf) \div 2, Len(buf) - 1} }

\* write_all(serde_json::to_string(&state)), then ControlFlow::Exit.
SaveWriteAll ==
    /\ pc = "ClosingSave" /\ saveStep = "write_all"
    /\ \E ok \in BOOLEAN :
        IF ok THEN /\ file' = FileOf(to_string(state))
                   /\ saved' = TRUE
                   /\ pc' = "Terminated"
                   /\ saveStep' = "none"
                   /\ UNCHANGED <<builder, win, monitor>>
        ELSE /\ \E part \in PartialWrites(to_string(state)) :
                    file' = FileOf(part)
             /\ SaveAborts
             /\ UNCHANGED saved
    /\ UNCHANGED <<target_os, config, appDirExists, window_state, state,
                   changes>>
    /\ UNCHANGED <<calls, loopVars>>

\* The process is killed during the save (power loss, kill -9).
Crash ==
    /\ pc = "ClosingSave"
    /\ IF saveStep = "write_all"
       THEN \E part \in PartialWrites(to_string(state)) : file' = FileOf(part)
       ELSE UNCHANGED file
    /\ ProcessDies("Crashed")
    /\ UNCHANGED <<target_os, config, appDirExists, window_state, state, saved,
                   changes>>
    /\ UNCHANGED <<calls, loopVars>>

----------------------------------------------------------------------------
(* The IPC handler *)

\* A request string is a sequence of pieces, each a run of characters that
\* the handler's patterns either take whole or not at all.
Pieces == {"open_browser", ":", "u"}

SeqsUpTo(S, n) == UNION {[1..k -> S] : k \in 0..n}

\* The requests a page can post.
Requests ==
    SeqsUpTo(Pieces, MaxReqLen) \cup {<<"drag_window">>, <<"fullscreen">>}

\* The requests posted while the loop is watched as a whole.
LoopRequests ==
    {<<"drag_window">>, <<"fullscreen">>, <<"open_browser", ":", "u">>, <<"u">>}

\* str::starts_with
starts_with(s, pat) == Len(s) >= Len(pat) /\ SubSeq(s, 1, Len(pat)) = pat

\* req.starts_with("open_browser")
OpensBrowser(req) == starts_with(req, <<"open_browser">>)

\* str::replace: every match of from, left to right, becomes to.
RECURSIVE replace(_, _, _)
replace(s, from, to) ==
    IF s = <<>> THEN <<>>
    ELSE IF starts_with(s, from)
    THEN to \o replace(SubSeq(s, Len(from) + 1, Len(s)), from, to)
    ELSE <<Head(s)>> \o replace(Tail(s), from, to)

\* req.replace("open_browser:", "")
Href(req) == replace(req, <<"open_browser", ":">>, <<>>)

\* What a request did, for last.
IpcDone(req, opened, href) ==
    [source |-> "ipc", req |-> req, opened |-> opened, href |-> href,
     was_maximized |-> win.maximized]

\* set_maximized that sets the fullscreen mode instead.
SetFullscreenInstead(w, maximized) ==
    [w EXCEPT !.fullscreen = IF maximized THEN [monitor |-> NoMonitor]
                             ELSE NoFullscreen]

\* window.set_maximized(maximized)
set_maximized(w, maximized) == [w EXCEPT !.maximized = maximized]

\* The handler given to with_ipc_handler, called with one request.
Ipc(req) ==
    /\ pc = "Running"
    /\ events < MaxEvents
    /\ events' = events + 1
    /\ IF req = <<"drag_window">>
       THEN /\ last' = IpcDone(req, FALSE, <<>>)
            /\ UNCHANGED <<pc, saveStep, builder, win, monitor>>
       ELSE IF req = <<"fullscreen">>
       THEN /\ win' = set_maximized(win, ~win.maximized)
            /\ last' = IpcDone(req, FALSE, <<>>)
            /\ UNCHANGED <<pc, saveStep, builder, monitor>>
       ELSE IF OpensBrowser(req)
       THEN /\ last' = IpcDone(req, TRUE, Href(req))
            /\ \E launched \in BOOLEAN :
                 IF launched
                 THEN UNCHANGED <<pc, saveStep, builder, win, monitor>>
                 ELSE ProcessDies("Aborted")
       ELSE /\ last' = IpcDone(req, FALSE, <<>>)
            /\ UNCHANGED <<pc, saveStep, builder, win, monitor>>
    /\ UNCHANGED <<target_os, config, appDirExists, file, window_state,
                   state, saved, changes, calls>>
    /\ UNCHANGED <<relay, handled, sentLog, toasts>>

\* A request of the page arrives.
IpcRequest == \E req \in LoopRequests : Ipc(req)

\* A page posts any request it can spell.
IpcAnyRequest == \E req \in Requests : Ipc(req)

-----------------------------------------------------------------------------
(* The menu *)

MenuIds == {"CloseWindow", "Other"}

\* The menu bar's handler that minimizes on no item.
MinimizesNever(os, menu_id) == FALSE

\* On macOS, menu_id == close_item.clone().id().
Minimizes(os, menu_id) == os = "macos" /\ menu_id = "CloseWindow"

\* Event::MenuEvent with origin MenuBar.
MenuEvent ==
    /\ pc = "Running"
    /\ events < MaxEvents
    /\ events' = events + 1
    /\ \E menu_id \in MenuIds :
         /\ IF Minimizes(target_os, menu_id)
            THEN win' = [win EXCEPT !.minimized = TRUE]
            ELSE win' = win
         /\ last' = [source |-> "menu", menu_id |-> menu_id]
    /\ UNCHANGED <<target_os, config, appDirExists, file, pc, saveStep,
                   window_state, builder, monitor, state, saved, changes,
                   calls>>
    /\ UNCHANGED <<relay, handled, sentLog, toasts>>

-----------------------------------------------------------------------------
(* The relay: download callbacks send UserEvents, the loop takes them *)

Uris == {"A", "B"}
NoPath == <<>>

DownloadStarted(uri, path) ==
    [kind |-> "DownloadStarted", uri |-> uri, path |-> path,
     success |-> FALSE]

DownloadComplete(path, success) ==
    [kind |-> "DownloadComplete", uri |-> "", path |-> path,
     success |-> success]

\* The webview and its callbacks are alive.
WebviewAlive == pc \in {"Running", "ClosingSave", "Terminated"}

\* proxy.send_event(..).is_ok(): the loop's receiver is still there.
SendIsOk == pc \in {"Running", "ClosingSave"}

\* send_event that puts the event in front of the waiting ones.
send_eventInFront(ev) ==
    IF SendIsOk
    THEN /\ relay' = <<ev>> \o relay
         /\ sentLog' = Append(sentLog, ev)
    ELSE UNCHANGED <<relay, sentLog>>

\* proxy.send_event(ev)
send_event(ev) ==
    IF SendIsOk
    THEN /\ relay' = Append(relay, ev)
         /\ sentLog' = Append(sentLog, ev)
    ELSE UNCHANGED <<relay, sentLog>>

\* submitted, the value download_started returns.
Submitted == SendIsOk

\* The download_started closure, called by the webview.
DownloadStartedCallback ==
    /\ WebviewAlive
    /\ events < MaxEvents
    /\ events' = events + 1
    /\ \E uri \in Uris :
         \E path \in {<<"download_dir", uri>>} :
            /\ send_event(DownloadStarted(uri, path))
            /\ last' = [source |-> "callback",
                        kind |-> "download_started",
                        default_path |-> path,
                        sent |-> SendIsOk,
                        returned |-> Submitted]
    /\ UNCHANGED <<target_os, config, appDirExists, file, pc, saveStep,
                   window_state, builder, win, monitor, state, saved,
                   changes, calls>>
    /\ UNCHANGED <<handled, toasts>>

\* The download_completed closure, called by the webview.
DownloadCompletedCallback ==
    /\ WebviewAlive
    /\ events < MaxEvents
    /\ events' = events + 1
    /\ \E success \in BOOLEAN :
         /\ send_event(DownloadComplete(NoPath, success))
         /\ last' = [source |-> "callback",
                     kind |-> "download_completed",
                     default_path |-> NoPath,
                     sent |-> SendIsOk,
                     returned |-> TRUE]
    /\ UNCHANGED <<target_os, config, appDirExists, file, pc, saveStep,
                   window_state, builder, win, monitor, state, saved,
                   changes, calls>>
    /\ UNCHANGED <<handled, toasts>>

\* ToastsFor that injects on every completion.
ToastsForAnyCompletion(ev) == IF ev.kind = "DownloadComplete" THEN 1 ELSE 0

\* The number of toasts the match injects for an event.
ToastsFor(ev) == IF ev.kind = "DownloadComplete" /\ ev.success THEN 1 ELSE 0

\* Event::UserEvent: the loop takes the oldest event of the channel.
HandleUserEvent ==
    /\ pc = "Running"
    /\ relay # <<>>
    /\ relay' = Tail(relay)
    /\ handled' = Append(handled, Head(relay))
    /\ toasts' = toasts + ToastsFor(Head(relay))
    /\ UNCHANGED <<target_os, config, appDirExists, file, pc, saveStep,
                   window_state, builder, win, monitor, state, saved,
                   changes, calls>>
    /\ UNCHANGED <<sentLog, last, events>>

-----------------------------------------------------------------------------
(* The program *)

Init ==
    /\ target_os \in TargetOs
    /\ config \in Configs
    /\ appDirExists \in BOOLEAN
    /\ file = NoFile
    /\ pc = "NotStarted"
    /\ saveStep = "none"
    /\ window_state = NoneState
    /\ builder = NoBuilder
    /\ win = NoWindow
    /\ monitor = NoMonitor
    /\ state = Unset
    /\ saved = FALSE
    /\ changes = 0
    /\ calls = <<>>
    /\ relay = <<>>
    /\ handled = <<>>
    /\ sentLog = <<>>
    /\ toasts = 0
    /\ last = NoEvent
    /\ events = 0

Next ==
    \/ Launch
    \/ UserMoves
    \/ UserResizes
    \/ UserTogglesMaximized
    \/ UserTogglesFullscreen
    \/ MonitorChanges
    \/ CloseRequested
    \/ SaveCreateDirAll
    \/ SaveFileCreate
    \/ SaveWriteAll
    \/ Crash

Spec == Init /\ [][Next]_vars

\* The loop with all its event sources: requests of the page, the menu,
\* the download callbacks, the relay and the close.
NextLoop ==
    \/ Launch
    \/ IpcRequest
    \/ MenuEvent
    \/ DownloadStartedCallback
    \/ DownloadCompletedCallback
    \/ HandleUserEvent
    \/ CloseRequested
    \/ SaveCreateDirAll
    \/ SaveFileCreate
    \/ SaveWriteAll

SpecLoop == Init /\ [][NextLoop]_vars

\* The handler alone, over every request.
NextIpc ==
    \/ Launch
    \/ IpcAnyRequest

SpecIpc == Init /\ [][NextIpc]_vars

----------------------------------------------------------------------------
(* Save followed by load, for every record: the save chain and the load *)
(* of the program, started with an arbitrary record in the handler.     *)

\* Largest f64 width/height of a record, in half units.
MaxLogical == 2

WindowStates ==
    [width : 1..MaxLogical, height : 1..MaxLogical,
     x : MinPos..MaxPos, y : MinPos..MaxPos, maximized : BOOLEAN,
     visible : BOOLEAN, decorated : BOOLEAN, fullscreen : BOOLEAN]

InitRoundTrip ==
    /\ target_os \in TargetOs
    /\ config \in Configs
    /\ appDirExists = TRUE
    /\ file = NoFile
    /\ pc = "ClosingSave"
    /\ saveStep = "create_dir_all"
    /\ window_state = NoneState
    /\ builder = NoBuilder
    /\ win = NoWindow
    /\ monitor = NoMonitor
    /\ state \in WindowStates
    /\ saved = FALSE
    /\ changes = 0
    /\ calls = <<>>
    /\ relay = <<>>
    /\ handled = <<>>
    /\ sentLog = <<>>
    /\ toasts = 0
    /\ last = NoEvent
    /\ events = 0

NextRoundTrip ==
    \/ SaveCreateDirAll
    \/ SaveFileCreate
    \/ SaveWriteAll
    \/ Launch

SpecRoundTrip == InitRoundTrip /\ [][NextRoundTrip]_vars

----------------------------------------------------------------------------
(* Properties *)

\* The record in the state file, as the startup load reads it.
Written == from_reader(file.content)

\* The loop has exited after a close that wrote its record.
ExitedSaved == pc = "Terminated" /\ saved

\* Mx < x < Mx + Mwidth and My < y < My + Mheight.
StrictlyInside(m, p) ==
    /\ m # NoMonitor
    /\ m.x < p.x /\ p.x < m.x + m.width
    /\ m.y < p.y /\ p.y < m.y + m.height

\* The live logical inner size at close, in half units.
LiveLogical == to_logical(win.inner_size, scale_factor(monitor))

\* C1: every CloseRequested handled while Running has written the record of
\* the live window to the state file by the time the loop has exited,
\* creating the application directory if it was missing.
CloseAlwaysWritesRecord ==
    pc = "Terminated" =>
        /\ saved
        /\ appDirExists
        /\ file = FileOf(to_string(CloseState(win, monitor)))

\* C2: after a crash during a save that started with a readable state file,
\* the startup load of the file yields the previous record or the new one.
CrashKeepsFileLoadable ==
    (pc = "Crashed" /\ window_state # NoneState) =>
        \/ LoadState(file) = window_state
        \/ LoadState(file) = state

\* C3: a close with the window maximized writes maximized = true and the
\* zero defaults for width, height, x and y, whatever the live geometry.
MaximizedSuppression ==
    (ExitedSaved /\ win.maximized) =>
        \A r \in {Written} :
            /\ r.maximized
            /\ r.width = 0 /\ r.height = 0
            /\ r.x = 0 /\ r.y = 0

\* Reached: a maximized window with a positive size, inside its monitor, has
\* been closed and its record written.
MaximizedCloseWritten ==
    /\ ExitedSaved /\ win.maximized
    /\ win.inner_size.width > 0 /\ win.inner_size.height > 0
    /\ StrictlyInside(monitor, win.position)

PositionPersisted ==
    ~win.maximized /\ StrictlyInside(monitor, win.position)

\* The record holds the live position.
HoldsLivePosition(r) == r.x = win.position.x /\ r.y = win.position.y

\* C4 as stated: the written (x, y) equals the live position if and only if
\* the window is not maximized and strictly inside its monitor; otherwise
\* both are 0.
PositionWrittenIffInside ==
    ExitedSaved =>
        \A r \in {Written} :
            /\ HoldsLivePosition(r) <=> PositionPersisted
            /\ ~PositionPersisted => (r.x = 0 /\ r.y = 0)

\* C4 amended: the written (x, y) is the live position when the window is
\* not maximized and strictly inside its monitor, and (0, 0) in every other
\* case; the two coincide when the live position is itself (0, 0).
PositionPolicy ==
    ExitedSaved =>
        \A r \in {Written} :
            /\ PositionPersisted => HoldsLivePosition(r)
            /\ ~PositionPersisted => (r.x = 0 /\ r.y = 0)
            /\ HoldsLivePosition(r) =>
                   (PositionPersisted \/ win.position = [x |-> 0, y |-> 0])

\* Reached: a close wrote the position (1, 1) of a window inside its monitor.
PositionInsideWritten ==
    /\ ExitedSaved /\ PositionPersisted
    /\ Written.x = 1 /\ Written.y = 1

SizePersisted ==
    win.inner_size.width > 0 /\ win.inner_size.height > 0 /\ ~win.maximized

\* The record holds the live logical size.
HoldsLiveSize(r) ==
    r.width = LiveLogical.width /\ r.height = LiveLogical.height

\* C5 as stated: the written (width, height) equals the live logical size
\* if and only if both live sides are positive and the window is not
\* maximized; otherwise both are 0.
SizeWrittenIffPositive ==
    ExitedSaved =>
        \A r \in {Written} :
            /\ HoldsLiveSize(r) <=> SizePersisted
            /\ ~SizePersisted => (r.width = 0 /\ r.height = 0)

\* C5 amended: the written (width, height) is the live logical size when
\* both live sides are positive and the window is not maximized, and (0, 0)
\* in every other case; the two coincide when the live size is itself 0 x 0.
SizePolicy ==
    ExitedSaved =>
        \A r \in {Written} :
            /\ SizePersisted => HoldsLiveSize(r)
            /\ ~SizePersisted => (r.width = 0 /\ r.height = 0)
            /\ r.width >= 0 /\ r.height >= 0
            /\ HoldsLiveSize(r) =>
                   (SizePersisted
                        \/ win.inner_size = [width |-> 0, height |-> 0])

\* Reached: a close on a monitor of scale factor 2 wrote the logical size
\* 0.5 x 0.5 of a window of 1 x 1 pixels.
ScaledSizeWritten ==
    /\ ExitedSaved /\ SizePersisted
    /\ scale_factor(monitor) = 2
    /\ Written.width = 1 /\ Written.height = 1

\* C6 as stated: no written record has a width or a height of 0.
NeverWritesZeroSize ==
    ExitedSaved => \A r \in {Written} : r.width # 0 /\ r.height # 0

\* C6 amended: a written record has both sides positive or both 0, and both
\* 0 exactly when the window was maximized or had a live side of 0; the
\* record a launch has read from a file of this program is of that kind.
ZeroSizeOnlyByPolicy ==
    /\ ExitedSaved =>
        \A r \in {Written} :
            /\ (r.width > 0 /\ r.height > 0) \/ (r.width = 0 /\ r.height = 0)
            /\ r.width = 0 <=> ~SizePersisted
    /\ (pc = "Running" /\ window_state # NoneState) =>
        \/ window_state.width > 0 /\ window_state.height > 0
        \/ window_state.width = 0 /\ window_state.height = 0

\* Reached: a launch has read the zero size written by a maximized close.
ZeroSizeRestored ==
    /\ pc = "Running" /\ window_state # NoneState
    /\ window_state.width = 0 /\ window_state.height = 0
    /\ window_state.maximized

\* The startup of a process, as one step.
Launched == pc \in NotRunning /\ pc' = "Running"

\* C7: a launch that reads a record with a non-positive width or height
\* sets the inner size to the config default.
DefensiveRestore ==
    [][(Launched /\ window_state' # NoneState
            /\ (window_state'.width <= 0 \/ window_state'.height <= 0)) =>
        win'.inner_size = to_physical(config.width, config.height,
                                      scale_factor(monitor'))]_vars

RoundTrip ==
    (ExitedSaved /\ state.width > 0 /\ state.height > 0) =>
        LoadState(file) = state

\* Reached: a record with a negative x, a fractional width and mixed flags
\* was written and read back.
RoundTripWritten ==
    /\ ExitedSaved
    /\ state.x < 0 /\ state.width = 1 /\ state.height = 2
    /\ ~state.visible /\ state.decorated
    /\ LoadState(file) = state

\* C10: a startup with no state file goes on with no state and the config
\* defaults; with a conforming file, with its record; with a file that does
\* not conform it fails, no window built, and is not taken for absence.
LoadOutcomes ==
    [][(pc \in NotRunning /\ pc' \in {"Running", "StartupFailed"}) =>
        IF ~file.exists
        THEN /\ pc' = "Running"
             /\ window_state' = NoneState
             /\ win'.inner_size = to_physical(config.width, config.height,
                                              scale_factor(monitor'))
        ELSE IF from_reader(file.content) # ParseError
        THEN /\ pc' = "Running"
             /\ window_state' = from_reader(file.content)
        ELSE /\ pc' = "StartupFailed"
             /\ window_state' = NoneState
             /\ builder' = NoBuilder
             /\ win' = NoWindow]_vars

\* Reached: a startup failed on a state file that exists.
StartupFailedOnBadFile ==
    /\ pc = "StartupFailed"
    /\ file.exists
    /\ win = NoWindow

\* The fullscreen flag the launch goes by: the loaded record's if there is
\* one, else the config's.
FullscreenWanted ==
    IF window_state' # NoneState THEN window_state'.fullscreen
    ELSE config.fullscreen

\* C11: a launch with a persisted record requests borderless fullscreen on
\* the current monitor exactly when the record's fullscreen is true,
\* whatever the config says; with no record, exactly when the config's is;
\* and set_inner_size is called after the fullscreen decision either way.
FullscreenAtLaunch ==
    [][Launched =>
        /\ Len(calls') = 2
        /\ calls'[1].op = "set_fullscreen"
        /\ calls'[1].arg =
              (IF FullscreenWanted THEN [monitor |-> monitor']
               ELSE NoFullscreen)
        /\ (win'.fullscreen # NoFullscreen) <=> FullscreenWanted
        /\ calls'[2].op = "set_inner_size"
        /\ calls'[2].arg =
              (IF window_state' # NoneState
               THEN [width |-> window_state'.width,
                     height |-> window_state'.height]
               ELSE [width |-> config.width, height |-> config.height])]_vars

\* Reached: a launch went fullscreen on a record against the config.
PersistedFullscreenOverConfig ==
    /\ pc = "Running" /\ changes = 0
    /\ window_state # NoneState /\ window_state.fullscreen
    /\ ~config.fullscreen
    /\ win.fullscreen # NoFullscreen
    /\ Len(calls) = 2

\* C12: a launch that is to enter fullscreen while the window's current
\* monitor is unknown makes no fullscreen request and leaves the window
\* windowed, and the startup goes on.
WindowedWhenMonitorUnknown ==
    [][(Launched /\ FullscreenWanted /\ monitor' = NoMonitor) =>
        /\ calls'[1].arg = NoFullscreen
        /\ win'.fullscreen = NoFullscreen]_vars

\* The record the live window and its monitor alone determine.
LiveRecord ==
    [width |-> IF SizePersisted THEN LiveLogical.width ELSE 0,
     height |-> IF SizePersisted THEN LiveLogical.height ELSE 0,
     x |-> IF PositionPersisted THEN win.position.x ELSE 0,
     y |-> IF PositionPersisted THEN win.position.y ELSE 0,
     maximized |-> win.maximized,
     visible |-> win.visible,
     decorated |-> win.decorated,
     fullscreen |-> (win.fullscreen # NoFullscreen)]

\* C18: the record a close writes is a function of the live window and its
\* monitor only: whatever record (or none) the run was started from, the
\* file holds the record of the live geometry and mode.
WholesaleOverwrite ==
    ExitedSaved => Written = LiveRecord

\* Reached: a close replaced a loaded record that had a position by one
\* that has none.
OverwroteDifferentRecord ==
    /\ ExitedSaved
    /\ window_state # NoneState
    /\ window_state.x # 0
    /\ Written.x = 0
    /\ Written # window_state

\* The process has left the loop for good: by ControlFlow::Exit, or by the
\* panic of a save attempt or of a handler.
LoopOver == pc \in {"Terminated", "Aborted"}

\* A step that starts a process.
FreshProcess ==
    /\ pc \in NotRunning /\ pc' \in {"Running", "StartupFailed"}
    /\ events' = 0 /\ relay' = <<>> /\ handled' = <<>> /\ last' = NoEvent

\* The links of the save chain after a given one.
LaterLinks(link) ==
    IF link = "create_dir_all" THEN {"File_create", "write_all"}
    ELSE IF link = "File_create" THEN {"write_all"}
    ELSE {}

\* C13: CloseRequested is terminal. Handled while Running it goes on to the
\* save attempt or straight to Terminated; the save attempt only moves
\* forward through its links and ends Terminated or aborted, never back in
\* Running; and once the close is being handled no request of the page, no
\* menu event and no relay event is handled in that process.
CloseIsTerminal ==
    [][/\ (pc = "ClosingSave" =>
            /\ pc' \in {"ClosingSave", "Terminated", "Aborted"}
            /\ (pc' = "ClosingSave" =>
                   saveStep' \in LaterLinks(saveStep) \/ saveStep' = saveStep))
       /\ ((pc = "ClosingSave" \/ LoopOver) /\ ~FreshProcess =>
            /\ pc' # "Running"
            /\ handled' = handled
            /\ toasts' = toasts
            /\ (last' = last \/ last'.source = "callback")
            /\ (win' = win \/ win' = NoWindow))
       /\ (pc' = "Running" /\ pc # "Running" => FreshProcess)]_vars

\* Reached: the loop has exited after a save with an event left in the
\* channel.
ExitedWithEventWaiting ==
    /\ pc = "Terminated" /\ saved
    /\ relay # <<>>
    /\ handled # <<>>

\* C14 as stated: every event sent while the loop is Running is handled:
\* the loop leaves Running only with the channel empty.
EverySentEventHandled ==
    [][(pc = "Running" /\ pc' \in {"ClosingSave", "Terminated"}) =>
        relay = <<>>]_vars

\* C14: no event is handled twice and events are handled in the order
\* sent: the events sent are those handled, in order, followed by those
\* still waiting; an event waiting when the loop is Running is handled
\* next; and a callback sends one event at a time.
RelayDelivery ==
    [][/\ sentLog' = handled' \o relay'
       /\ (Len(handled') > Len(handled) =>
            /\ pc = "Running"
            /\ handled' = Append(handled, Head(relay))
            /\ relay' = Tail(relay))
       /\ (Len(sentLog') > Len(sentLog) =>
            /\ Len(sentLog') = Len(sentLog) + 1
            /\ events' = events + 1
            /\ last'.source = "callback"
            /\ last'.sent)]_vars

\* Reached: two download starts, sent A then B, were handled A then B.
HandledInSendOrder ==
    /\ Len(handled) = 2
    /\ handled[1].kind = "DownloadStarted" /\ handled[1].uri = "A"
    /\ handled[2].kind = "DownloadStarted" /\ handled[2].uri = "B"
    /\ relay = <<>>

\* C15: a callback whose send fails neither aborts the process nor gives
\* its caller another outcome than with a send that succeeds: a download
\* start still has its destination path set and still returns true, so the
\* download goes on.
FailedSendSwallowed ==
    (last.source = "callback" /\ ~last.sent) =>
        /\ pc # "Aborted"
        /\ last.returned
        /\ (last.kind = "download_started" => last.default_path # NoPath)

\* The request starts with "open_browser:".
HasOpenBrowserPrefix(req) ==
    Len(req) >= 2 /\ req[1] = "open_browser" /\ req[2] = ":"

\* C16: for a request "open_browser:" followed by a remainder, the browser
\* is given exactly the remainder, whatever it holds; a request that
\* starts otherwise, and is neither drag_window nor fullscreen, launches no
\* browser.
BrowserGetsRemainder ==
    last.source = "ipc" =>
        IF HasOpenBrowserPrefix(last.req)
        THEN /\ last.opened
             /\ last.href = SubSeq(last.req, 3, Len(last.req))
        ELSE ~last.opened

\* A step that handles a menu event.
MenuStep == events' = events + 1 /\ last'.source = "menu"

\* C17: a menu event is handled in Running and leaves the loop Running, the
\* exit unset and the state file alone, and on macOS the close window item
\* minimizes the window; the state file changes only under the save of a
\* CloseRequested, and not again once that save has written.
MenuCloseMinimizes ==
    [][/\ (MenuStep =>
            /\ pc = "Running" /\ pc' = "Running"
            /\ file' = file /\ saved' = saved /\ saveStep' = saveStep
            /\ (win' = win \/ win' = [win EXCEPT !.minimized = TRUE])
            /\ (target_os = "macos" /\ last'.menu_id = "CloseWindow" =>
                   win'.minimized))
       /\ (file' # file => pc = "ClosingSave" /\ ~saved)
       /\ (saved' /\ ~saved => pc = "ClosingSave" /\ pc' = "Terminated")]_vars

\* Reached: the close window item has minimized the window and the loop
\* runs on.
MinimizedByMenu ==
    /\ pc = "Running"
    /\ target_os = "macos"
    /\ last.source = "menu" /\ last.menu_id = "CloseWindow"
    /\ win.minimized

\* A step that handles a relay event.
RelayStep == Len(handled') = Len(handled) + 1

\* C19: handling a DownloadComplete with success injects one toast, one
\* without success none, a DownloadStarted none; and none of them changes
\* the window, its monitor, the loop's state or the state file.
RelayHandlingFrame ==
    [][RelayStep =>
        /\ toasts' = toasts +
              (IF Head(relay).kind = "DownloadComplete" /\ Head(relay).success
               THEN 1 ELSE 0)
        /\ win' = win /\ monitor' = monitor
        /\ pc' = pc /\ saveStep' = saveStep
        /\ file' = file /\ saved' = saved]_vars

\* Reached: a completion with success and one without were handled, with
\* one toast.
OneToastForTwoCompletions ==
    /\ Len(handled) = 2
    /\ handled[1].kind = "DownloadComplete" /\ handled[1].success
    /\ handled[2].kind = "DownloadComplete" /\ ~handled[2].success
    /\ toasts = 1

\* A step that handles a request of the page.
IpcStep == events' = events + 1 /\ last'.source = "ipc"

\* The request is none the handler knows.
Unrecognised(req) ==
    /\ req # <<"drag_window">>
    /\ req # <<"fullscreen">>
    /\ ~OpensBrowser(req)

\* What every request of the page does, its leaving of Running aside.
IpcEffects ==
    /\ file' = file /\ saved' = saved
    /\ (last'.req = <<"fullscreen">> =>
          /\ win' = [win EXCEPT !.maximized = ~win.maximized]
          /\ win'.fullscreen = win.fullscreen
          /\ (last.source = "ipc" /\ last.req = <<"fullscreen">> =>
                 win'.maximized = last.was_maximized))
    /\ (Unrecognised(last'.req) =>
          /\ win' = win /\ monitor' = monitor
          /\ ~last'.opened)

\* C20 as stated: the fullscreen request flips maximized and leaves the
\* fullscreen mode, two in a row restore the flag, an unrecognised request
\* changes nothing, and no request leaves Running or writes the state
\* file.
IpcNeverLeavesRunning ==
    [][IpcStep => IpcEffects /\ pc' = "Running"]_vars

\* C20: as stated, except that an open-browser request whose browser
\* launch fails aborts the process; every other request leaves the loop
\* Running.
IpcFrame ==
    [][IpcStep =>
        /\ IpcEffects
        /\ pc = "Running"
        /\ (pc' = "Running" \/ (pc' = "Aborted" /\ last'.opened))
        /\ (~OpensBrowser(last'.req) => pc' = "Running")]_vars

\* Reached: two fullscreen requests in a row have brought the maximized
\* flag back.
MaximizedFlippedTwice ==
    /\ pc = "Running"
    /\ events = 2
    /\ last.source = "ipc" /\ last.req = <<"fullscreen">>
    /\ last.was_maximized
    /\ ~win.maximized
    /\ win.fullscreen = NoFullscreen

====
